---- MODULE Spec2Model ----
(***************************************************************************)
(* Model of caospy's AdjointProblem (src/caospy/_pde_problems/             *)
(* adjoint_problem.py): the constructor and solve(), stepped through its   *)
(* loops.  Floating-point quantities are exact non-negative integers: the  *)
(* l2 norms of the assembled Picard residuals are drawn from 0..MaxNorm,   *)
(* restricted to those whose sum of squares is a perfect square so that    *)
(* np.sqrt is exact; rtol is a fraction.  An adjoint buffer is the number  *)
(* of times a solve has overwritten it.                                    *)
(***************************************************************************)
EXTENDS Integers, Sequences, FiniteSets, TLC

\* ---- bounds of the model -------------------------------------------------
StateDim == 2
MaxNorm == 4
MaxIter == 2
MaxCalls == 2

Idx == 0 .. (StateDim - 1)
Unset == -1

\* picard_atol, in the unit of the norms: no residual is below 0, and 1 is
\* below 2
Atols == {0, 2}

\* picard_rtol as a fraction <<numerator, denominator>>: 1/2, 1 and 3/2
Rtols == {<<1, 2>>, <<1, 1>>, <<3, 2>>}

VARIABLES
    maxiter, rtol, atol, picard_verbose, state_is_picard,
    ksps, adjoints, number_of_solves, has_solution,
    pc, i, j, res, res_0, res_j, picard_state,
    log, entry, ret, calls, epoch

cfgvars == <<maxiter, rtol, atol, picard_verbose, state_is_picard>>
objvars == <<ksps, adjoints, number_of_solves, has_solution>>
locvars == <<i, j, res, res_0, res_j, picard_state>>
vars == <<cfgvars, objvars, locvars, pc, log, entry, ret, calls, epoch>>

\* ---- pure helpers --------------------------------------------------------

PyIndexForward(k, len) == IF k < 0 THEN -1 - k ELSE k

\* Python list indexing: a negative index counts from the end.
PyIndex(k, len) == IF k < 0 THEN len + k ELSE k

IsSquare(n) == \E r \in 0 .. n : r * r = n

\* np.sqrt on the perfect squares the model feeds it
Sqrt(n) == CHOOSE r \in 0 .. n : r * r = n

\* a partial sum of squared norms that n further norms of 0..MaxNorm can
\* bring to a perfect square
RECURSIVE Completable(_, _)
Completable(partial, n) ==
    IF n = 0 THEN IsSquare(partial)
    ELSE \E m \in 0 .. MaxNorm : Completable(partial + m * m, n - 1)

\* res / res_0 < rtol, with rtol the fraction tol[1] / tol[2] and res_0 > 0
RatioLess(r, r0, tol) == r * tol[2] < tol[1] * r0

ToleranceMetBoth(r, r0, rt, at) == RatioLess(r, r0, rt) /\ r < at

ToleranceMetInclusive(r, r0, rt, at) == r * rt[2] <= rt[1] * r0 \/ r <= at

\* the break test of the Picard loop
ToleranceMet(r, r0, rt, at) == RatioLess(r, r0, rt) \/ r < at

\* if not self.has_solution
IsStaleAlways(flag) == TRUE

IsStale(flag) == ~flag

\* if res==0
IsZeroNever(r) == FALSE

IsZero(r) == r = 0

\* if i==self.maxiter
AtMaxIterNever(k, m) == FALSE

AtMaxIterEarly(k, m) == k + 1 >= m

AtMaxIter(k, m) == k = m

\* for i in range(n): the loop body is entered for k iff k < n
InRange(k, n) == k < n

\* a loop whose iteration starts with the sweep
PicardLoopPcSweepFirst(k) == IF InRange(k, maxiter + 1) THEN "picard_sweep" ELSE "finish"

\* the state after the iteration with index k of the Picard for-loop ended
\* normally: next iteration, or fall out of the loop
PicardLoopPc(k) == IF InRange(k, maxiter + 1) THEN "picard_res" ELSE "finish"

DirectLoopPc(k) == IF InRange(k, StateDim) THEN "direct" ELSE "finish"

Ev(op, n) == <<op, n>>

\* ---- construction --------------------------------------------------------

Init ==
    /\ maxiter \in -1 .. MaxIter
    /\ rtol \in Rtols
    /\ atol \in Atols
    /\ picard_verbose \in BOOLEAN
    /\ state_is_picard \in BOOLEAN
    /\ ksps = [k \in Idx |-> [id |-> k, op |-> Unset]]
    /\ adjoints = [k \in Idx |-> 0]
    /\ number_of_solves = 0
    /\ has_solution = FALSE
    /\ pc = "idle"
    /\ i = 0 /\ j = 0 /\ res = 0 /\ res_0 = Unset
    /\ res_j = 0
    /\ picard_state = "None"
    /\ log = <<>>
    /\ entry = [flag |-> FALSE, count |-> 0, adjoints |-> adjoints, ksps |-> ksps]
    /\ ret = <<>>
    /\ calls = 0
    /\ epoch = [count |-> 0, completed |-> 0, first |-> adjoints]

\* ---- solve() -------------------------------------------------------------

\* an entry that goes to the cache test without solving the state problem
CallNoStateSolve ==
    /\ pc \in {"idle", "returned"}
    /\ calls < MaxCalls
    /\ calls' = calls + 1
    /\ pc' = "check_cache"
    /\ log' = <<>>
    /\ entry' = [flag |-> has_solution, count |-> number_of_solves,
                 adjoints |-> adjoints, ksps |-> ksps]
    /\ i' = 0 /\ j' = 0 /\ res' = 0 /\ res_0' = Unset
    /\ res_j' = 0
    /\ picard_state' = "None"
    /\ ret' = <<>>
    /\ UNCHANGED <<cfgvars, objvars, epoch>>

\* entry of solve(): self.state_problem.solve()
Call ==
    /\ pc \in {"idle", "returned"}
    /\ calls < MaxCalls
    /\ calls' = calls + 1
    /\ pc' = "check_cache"
    /\ log' = <<Ev("state_solve", Unset)>>
    /\ entry' = [flag |-> has_solution, count |-> number_of_solves,
                 adjoints |-> adjoints, ksps |-> ksps]
    /\ i' = 0 /\ j' = 0 /\ res' = 0 /\ res_0' = Unset
    /\ res_j' = 0
    /\ picard_state' = "None"
    /\ ret' = <<>>
    /\ UNCHANGED <<cfgvars, objvars, epoch>>

\* return self.adjoints
Return ==
    /\ pc' = "returned"
    /\ ret' = adjoints
    /\ i' = 0 /\ j' = 0 /\ res' = 0 /\ res_0' = Unset
    /\ res_j' = 0
    /\ epoch' = [epoch EXCEPT !.completed = @ + 1,
                              !.first = IF epoch.completed = 0 THEN adjoints ELSE @]

\* a dispatch that takes the Picard loop for an uncoupled state equation and
\* the direct pass for a coupled one
CheckCacheSwapped ==
    /\ pc = "check_cache"
    /\ IF ~IsStale(has_solution)
       THEN /\ Return
            /\ UNCHANGED picard_state
       ELSE /\ IF state_is_picard
               THEN /\ pc' = DirectLoopPc(0)
                    /\ picard_state' = "None"
               ELSE /\ pc' = PicardLoopPc(0)
                    /\ picard_state' = "Running"
            /\ UNCHANGED <<i, j, res, res_0, res_j, ret, epoch>>
    /\ UNCHANGED <<cfgvars, objvars, log, entry, calls>>

\* if not self.has_solution: ... and the dispatch on state_is_picard
CheckCache ==
    /\ pc = "check_cache"
    /\ IF ~IsStale(has_solution)
       THEN /\ Return
            /\ UNCHANGED picard_state
       ELSE /\ IF ~state_is_picard
               THEN /\ pc' = DirectLoopPc(0)
                    /\ picard_state' = "None"
               ELSE /\ pc' = PicardLoopPc(0)
                    /\ picard_state' = "Running"
            /\ UNCHANGED <<i, j, res, res_0, res_j, ret, epoch>>
    /\ UNCHANGED <<cfgvars, objvars, log, entry, calls>>

\* a direct iteration that solves on the handle without setting its operator
DirectStepNoOperator ==
    /\ pc = "direct"
    /\ LET n == PyIndex(-1 - i, StateDim) IN
       /\ log' = log \o <<Ev("assemble_system", n), Ev("ksp_solve", n)>>
       /\ adjoints' = [adjoints EXCEPT ![n] = @ + 1]
    /\ i' = i + 1
    /\ pc' = DirectLoopPc(i + 1)
    /\ UNCHANGED <<cfgvars, ksps, number_of_solves, has_solution, j, res, res_0,
                   res_j, picard_state, entry, ret, calls, epoch>>

\* one iteration of the direct loop: assemble_system, setOperators, solve
DirectStep ==
    /\ pc = "direct"
    /\ LET n == PyIndex(-1 - i, StateDim) IN
       /\ log' = log \o <<Ev("assemble_system", n), Ev("setOperators", n),
                          Ev("ksp_solve", n)>>
       /\ ksps' = [ksps EXCEPT ![n].op = n]
       /\ adjoints' = [adjoints EXCEPT ![n] = @ + 1]
    /\ i' = i + 1
    /\ pc' = DirectLoopPc(i + 1)
    /\ UNCHANGED <<cfgvars, number_of_solves, has_solution, j, res, res_0, res_j,
                   picard_state, entry, ret, calls, epoch>>

\* one iteration of the residual loop: res += ||res_j||^2
PicardResidual ==
    /\ pc = "picard_res"
    /\ \E n \in 0 .. MaxNorm :
         LET sum == (IF j = 0 THEN 0 ELSE res) + n * n IN
         /\ Completable(sum, StateDim - 1 - j)
         /\ res_j' = n
         /\ res' = sum
    /\ log' = Append(log, Ev("assemble", j))
    /\ j' = j + 1
    /\ pc' = IF InRange(j + 1, StateDim) THEN "picard_res" ELSE "picard_test"
    /\ UNCHANGED <<cfgvars, objvars, i, res_0, picard_state, entry, ret, calls, epoch>>

\* the tests with the reference residual overwritten at every sweep
PicardTestRefEachSweep ==
    /\ pc = "picard_test"
    /\ IF IsZero(res)
       THEN /\ pc' = "finish"
            /\ picard_state' = "Converged"
            /\ UNCHANGED <<res, res_0, log, j>>
       ELSE LET r == Sqrt(res)
                r0 == r
            IN  /\ res' = r
                /\ res_0' = r0
                /\ log' = IF picard_verbose THEN Append(log, Ev("print", i)) ELSE log
                /\ j' = 0
                /\ IF r0 = Unset \/ r0 = 0
                   THEN /\ pc' = "crashed"
                        /\ UNCHANGED picard_state
                   ELSE IF ToleranceMet(r, r0, rtol, atol)
                   THEN /\ pc' = "finish"
                        /\ picard_state' = "Converged"
                   ELSE IF AtMaxIter(i, maxiter)
                   THEN /\ pc' = "aborted"
                        /\ picard_state' = "Failed"
                   ELSE /\ pc' = "picard_sweep"
                        /\ UNCHANGED picard_state
    /\ res_j' = 0
    /\ UNCHANGED <<cfgvars, objvars, i, entry, ret, calls, epoch>>

\* the tests with the sweep limit tested before the tolerances
PicardTestLimitFirst ==
    /\ pc = "picard_test"
    /\ IF IsZero(res)
       THEN /\ pc' = "finish"
            /\ picard_state' = "Converged"
            /\ UNCHANGED <<res, res_0, log, j>>
       ELSE LET r == Sqrt(res)
                r0 == IF i = 0 THEN r ELSE res_0
            IN  /\ res' = r
                /\ res_0' = r0
                /\ log' = IF picard_verbose THEN Append(log, Ev("print", i)) ELSE log
                /\ j' = 0
                /\ IF r0 = Unset \/ r0 = 0
                   THEN /\ pc' = "crashed"
                        /\ UNCHANGED picard_state
                   ELSE IF AtMaxIter(i, maxiter)
                   THEN /\ pc' = "aborted"
                        /\ picard_state' = "Failed"
                   ELSE IF ToleranceMet(r, r0, rtol, atol)
                   THEN /\ pc' = "finish"
                        /\ picard_state' = "Converged"
                   ELSE /\ pc' = "picard_sweep"
                        /\ UNCHANGED picard_state
    /\ res_j' = 0
    /\ UNCHANGED <<cfgvars, objvars, i, entry, ret, calls, epoch>>

\* the tests after the residual loop: res==0, sqrt, res_0, verbose print,
\* tolerance test, i==maxiter
PicardTest ==
    /\ pc = "picard_test"
    /\ IF IsZero(res)
       THEN /\ pc' = "finish"
            /\ picard_state' = "Converged"
            /\ UNCHANGED <<res, res_0, log, j>>
       ELSE LET r == Sqrt(res)
                r0 == IF i = 0 THEN r ELSE res_0
            IN  /\ res' = r
                /\ res_0' = r0
                /\ log' = IF picard_verbose THEN Append(log, Ev("print", i)) ELSE log
                /\ j' = 0
                /\ IF r0 = Unset \/ r0 = 0
                   THEN /\ pc' = "crashed"
                        /\ UNCHANGED picard_state
                   ELSE IF ToleranceMet(r, r0, rtol, atol)
                   THEN /\ pc' = "finish"
                        /\ picard_state' = "Converged"
                   ELSE IF AtMaxIter(i, maxiter)
                   THEN /\ pc' = "aborted"
                        /\ picard_state' = "Failed"
                   ELSE /\ pc' = "picard_sweep"
                        /\ UNCHANGED picard_state
    /\ res_j' = 0
    /\ UNCHANGED <<cfgvars, objvars, i, entry, ret, calls, epoch>>

\* one iteration of the sweep loop: fenics.solve(lhs[-1-j] == rhs[-1-j], ...)
PicardSweep ==
    /\ pc = "picard_sweep"
    /\ LET n == PyIndex(-1 - j, StateDim) IN
       /\ log' = Append(log, Ev("fenics_solve", n))
       /\ adjoints' = [adjoints EXCEPT ![n] = @ + 1]
    /\ IF InRange(j + 1, StateDim)
       THEN /\ j' = j + 1
            /\ pc' = "picard_sweep"
            /\ UNCHANGED i
       ELSE /\ j' = 0
            /\ i' = i + 1
            /\ pc' = PicardLoopPc(i + 1)
    /\ UNCHANGED <<cfgvars, ksps, number_of_solves, has_solution, res, res_0, res_j,
                   picard_state, entry, ret, calls, epoch>>

\* a tail that sets the flag and forgets the counter
FinishNoCount ==
    /\ pc = "finish"
    /\ log' = IF picard_verbose THEN Append(log, Ev("print", Unset)) ELSE log
    /\ has_solution' = TRUE
    /\ UNCHANGED <<ksps, adjoints, number_of_solves>>
    /\ Return
    /\ UNCHANGED <<cfgvars, picard_state, entry, calls>>

\* the tail of the stale branch: has_solution = True, number_of_solves += 1,
\* then return self.adjoints
Finish ==
    /\ pc = "finish"
    /\ log' = IF picard_verbose THEN Append(log, Ev("print", Unset)) ELSE log
    /\ has_solution' = TRUE
    /\ number_of_solves' = number_of_solves + 1
    /\ UNCHANGED <<ksps, adjoints>>
    /\ Return
    /\ UNCHANGED <<cfgvars, picard_state, entry, calls>>

\* the caller signals that the forward state changed
Invalidate ==
    /\ pc \in {"idle", "returned"}
    /\ has_solution' = FALSE
    /\ pc' = "idle"
    /\ epoch' = [count |-> number_of_solves, completed |-> 0, first |-> adjoints]
    /\ log' = <<>>
    /\ ret' = <<>>
    /\ picard_state' = "None"
    /\ entry' = [flag |-> FALSE, count |-> number_of_solves,
                 adjoints |-> adjoints, ksps |-> ksps]
    /\ UNCHANGED <<cfgvars, ksps, adjoints, number_of_solves, i, j, res, res_0,
                   res_j, calls>>

Next ==
    \/ Call
    \/ CheckCache
    \/ DirectStep
    \/ PicardResidual
    \/ PicardTest
    \/ PicardSweep
    \/ Finish
    \/ Invalidate

Spec == Init /\ [][Next]_vars

\* a step of the running solve(): the call is synchronous and blocking, so a
\* call that has been entered keeps executing; calling and invalidating are
\* the caller's choice
SolveStep ==
    \/ CheckCache
    \/ DirectStep
    \/ PicardResidual
    \/ PicardTest
    \/ PicardSweep
    \/ Finish

FairSpec == Spec /\ WF_vars(SolveStep)

\* ---- observations on the event log of the current call -------------------

Count(op) == Cardinality({k \in DOMAIN log : log[k][1] = op})

IsSolveEvent(e) == e[1] \in {"ksp_solve", "fenics_solve"}

\* the subsystem solves of the current call, in the order they happened
Solves == SelectSeq(log, IsSolveEvent)

\* the Picard sweeps completed in the current call
NumSweeps == Count("fenics_solve") \div StateDim

\* a stale-cache call is between its dispatch and its last statement
InStrategy == pc \in {"direct", "picard_res", "picard_test", "picard_sweep",
                      "finish", "aborted", "crashed"}

\* the state right after the tests on a non-zero residual (res is the root)
PostTest == /\ state_is_picard
            /\ pc \in {"finish", "aborted", "picard_sweep"}
            /\ res_0 # Unset
            /\ res > 0

AbsMet == res < atol
RelMet == res * rtol[2] < rtol[1] * res_0

\* ---- claims --------------------------------------------------------------

\* C1: a solve() that starts with has_solution true goes from the cache test
\* straight to its return: its log holds only the state solve, and buffers,
\* handles, flag and counter are those at entry; and once a call has completed
\* since the last invalidation, the counter is one above its value at the
\* invalidation and the buffers are those the first completed call left.
C1_CacheHit ==
    /\ entry.flag =>
         /\ pc \in {"check_cache", "returned"}
         /\ log = <<Ev("state_solve", Unset)>>
         /\ adjoints = entry.adjoints
         /\ ksps = entry.ksps
         /\ has_solution
         /\ number_of_solves = entry.count
    /\ epoch.completed >= 1 =>
         /\ number_of_solves = epoch.count + 1
         /\ adjoints = epoch.first

\* a second call has returned from the cache after a first one that solved
C1_Witness ==
    /\ pc = "returned" /\ entry.flag /\ epoch.completed = 2
    /\ \E k \in Idx : adjoints[k] > 0

\* C2: a solve() that started stale and returned has incremented the counter
\* by one and has re-run its strategy: every subsystem solved through its
\* handle, or in Picard mode a residual evaluated.
C2_Recompute ==
    (pc = "returned" /\ ~entry.flag) =>
        /\ number_of_solves = entry.count + 1
        /\ IF state_is_picard
           THEN Count("assemble") >= StateDim
           ELSE \A n \in Idx : Ev("ksp_solve", n) \in {log[k] : k \in DOMAIN log}

\* C3: the k-th subsystem solve of a call is for index N-1-((k-1) mod N), and
\* passes are whole: a direct loop at iteration i has solved i subsystems, a
\* Picard iteration i evaluates its residual after i*N solves, and a finished
\* direct call has solved exactly N.
C3_ReverseOrder ==
    /\ \A k \in DOMAIN Solves : Solves[k][2] = StateDim - 1 - ((k - 1) % StateDim)
    /\ pc = "direct" => Len(Solves) = i
    /\ pc \in {"picard_res", "picard_test"} => Len(Solves) = i * StateDim
    /\ pc = "picard_sweep" => Len(Solves) = i * StateDim + j
    /\ (pc = "finish" /\ ~state_is_picard) => Len(Solves) = StateDim

\* a Picard call has completed two sweeps
C3_Witness ==
    state_is_picard /\ pc = "picard_test" /\ i = 2 /\ Len(Solves) = 2 * StateDim

\* C4: with maxiter >= 0, solve() is aborted only at sweep index maxiter after
\* exactly maxiter sweeps and on a residual that meets no test; a sweep is
\* started only at an index below maxiter and on such a residual; and the loop
\* is left for the tail only on a residual that meets a test.
C4_MaxSweeps ==
    maxiter >= 0 =>
        /\ pc = "aborted" =>
             /\ picard_state = "Failed"
             /\ i = maxiter /\ NumSweeps = maxiter
             /\ PostTest /\ ~AbsMet /\ ~RelMet
        /\ picard_state = "Failed" => pc = "aborted"
        /\ pc = "picard_sweep" => i < maxiter /\ PostTest /\ ~AbsMet /\ ~RelMet
        /\ (pc = "finish" /\ state_is_picard) =>
             /\ picard_state = "Converged"
             /\ res = 0 \/ (PostTest /\ (AbsMet \/ RelMet))
        /\ Count("fenics_solve") <= maxiter * StateDim

\* the call failed after MaxIter sweeps
C4_Witness == pc = "aborted" /\ maxiter = MaxIter /\ NumSweeps = MaxIter

\* C5: after the tests of a sweep index > 0, a residual that meets exactly one
\* of the two tolerances (absolute only, or relative only) has left the loop:
\* the call is Converged with exactly i sweeps done; and a Converged call
\* never solves again: it is at its tail or has returned, and its log ends
\* with no solve after the last residual.
C5_OrLogic ==
    /\ (PostTest /\ i > 0 /\ ((AbsMet /\ ~RelMet) \/ (RelMet /\ ~AbsMet))) =>
         /\ pc = "finish"
         /\ picard_state = "Converged"
         /\ NumSweeps = i
    /\ picard_state = "Converged" =>
         /\ pc \in {"finish", "returned"}
         /\ \A k \in DOMAIN log :
              log[k][1] = "fenics_solve" =>
                  \E m \in DOMAIN log : m > k /\ log[m][1] = "assemble"

\* Converged at the last allowed sweep on the absolute tolerance alone
C5_Witness ==
    /\ PostTest /\ pc = "finish" /\ i = MaxIter /\ NumSweeps = MaxIter
    /\ AbsMet /\ ~RelMet

\* C6: a residual that is exactly 0 never leads to a sweep, a failure or a
\* division: after it the call is at its tail, Converged, with i whole sweeps
\* done; at sweep 0 nothing was solved and the buffers are those at entry; and
\* a Converged call that returned without any solve has set the flag and
\* incremented the counter, with the buffers unchanged.
C6_ZeroFastPath ==
    /\ pc \in {"picard_sweep", "aborted", "crashed"} => res # 0
    /\ (pc = "finish" /\ state_is_picard /\ res = 0 /\ Count("assemble") > 0) =>
         /\ picard_state = "Converged"
         /\ Count("fenics_solve") = i * StateDim
         /\ Count("assemble") = (i + 1) * StateDim
         /\ i = 0 => (Solves = <<>> /\ adjoints = entry.adjoints)
    /\ (pc = "returned" /\ picard_state = "Converged" /\ Solves = <<>>) =>
         /\ has_solution
         /\ number_of_solves = entry.count + 1
         /\ adjoints = entry.adjoints
         /\ ret = adjoints

\* the initial residual of a call was 0
C6_Witness ==
    /\ pc = "finish" /\ state_is_picard /\ res = 0 /\ i = 0
    /\ Count("assemble") = StateDim

\* C7 (as claimed): a non-zero residual converges only at a sweep index > 0,
\* and a call with a non-zero initial residual and maxiter >= 1 that has left
\* the loop has performed at least one sweep.
C7_Sweep0Guard ==
    /\ (PostTest /\ pc = "finish") => i > 0
    /\ (PostTest /\ pc \in {"finish", "aborted"} /\ maxiter >= 1) => NumSweeps >= 1

\* C7 (amended): the tolerance test has no sweep guard.  After the tests of
\* sweep 0 on a non-zero residual (the ratio is 1) the call is Converged
\* exactly when the residual is below atol or rtol is above 1; otherwise it
\* sweeps when maxiter >= 1 and fails when maxiter = 0.
C7_Sweep0Tolerance ==
    (PostTest /\ i = 0) =>
        /\ res_0 = res
        /\ pc = "finish" <=> (res < atol \/ rtol[2] < rtol[1])
        /\ pc = "picard_sweep" <=> (~(res < atol \/ rtol[2] < rtol[1]) /\ maxiter >= 1)
        /\ pc = "finish" => (picard_state = "Converged" /\ Solves = <<>>)

\* Converged at sweep 0 on a non-zero residual below atol, with rtol <= 1
C7_Witness ==
    /\ PostTest /\ i = 0 /\ pc = "finish"
    /\ res < atol /\ ~(rtol[2] < rtol[1])

\* C8: between the dispatch of a stale call and its tail the flag is false and
\* the counter is the one at entry; a stale call that returned after a whole
\* direct pass or a Converged Picard loop has the flag true and the counter
\* one above entry.
C8_SuccessPost ==
    /\ InStrategy =>
         /\ ~entry.flag
         /\ ~has_solution
         /\ number_of_solves = entry.count
    /\ (pc = "returned" /\ ~entry.flag
          /\ (IF state_is_picard THEN picard_state = "Converged"
                                 ELSE Len(Solves) = StateDim)) =>
         /\ has_solution
         /\ number_of_solves = entry.count + 1

\* a second stale call returned after sweeping
C8_Witness ==
    /\ pc = "returned" /\ ~entry.flag /\ entry.count = 1
    /\ picard_state = "Converged" /\ NumSweeps >= 1

\* C9: an aborted call is a Failed Picard loop that returned nothing, left the
\* flag false and the counter as at entry, and solved nothing after its last
\* residual; Failed is only ever the aborted state; and a call that returned
\* either hit the cache, made a whole direct pass, or reached Converged.
C9_FatalNoResult ==
    /\ pc = "aborted" =>
         /\ picard_state = "Failed"
         /\ ret = <<>>
         /\ ~has_solution
         /\ number_of_solves = entry.count
         /\ log[Len(log)][1] \in {"assemble", "print"}
    /\ picard_state = "Failed" => pc = "aborted"
    /\ pc = "returned" =>
         \/ entry.flag
         \/ ~state_is_picard /\ Len(Solves) = StateDim
         \/ state_is_picard /\ picard_state = "Converged"

\* C10 (as claimed): every subsystem solve of a call goes through handle n,
\* right after setOperators on handle n.
C10_AllThroughHandles ==
    \A k \in DOMAIN log :
        IsSolveEvent(log[k]) =>
            /\ log[k][1] = "ksp_solve"
            /\ k > 1 /\ log[k - 1] = Ev("setOperators", log[k][2])

\* C10 (amended): in the direct strategy every subsystem solve goes through
\* that subsystem's handle, right after setOperators on it, and leaves the
\* operator of form n on handle n; a Picard sweep solves with fenics.solve and
\* touches no handle; the handles are the N created at construction.
C10_HandlesDirectOnly ==
    /\ \A k \in DOMAIN log :
         /\ log[k][1] = "ksp_solve" =>
              /\ ~state_is_picard
              /\ k > 1 /\ log[k - 1] = Ev("setOperators", log[k][2])
              /\ ksps[log[k][2]].op = log[k][2]
         /\ log[k][1] = "setOperators" =>
              k < Len(log) /\ log[k + 1] = Ev("ksp_solve", log[k][2])
         /\ log[k][1] = "fenics_solve" => state_is_picard
    /\ ~state_is_picard => Count("fenics_solve") = 0
    /\ state_is_picard =>
         /\ Count("ksp_solve") = 0 /\ Count("setOperators") = 0
         /\ ksps = entry.ksps
    /\ DOMAIN ksps = Idx
    /\ \A n \in Idx : ksps[n].id = n /\ ksps[n].op \in {Unset, n}

\* a direct pass in a second call has reused every handle
C10_Witness ==
    /\ ~state_is_picard /\ pc = "finish" /\ entry.count = 1
    /\ Count("ksp_solve") = StateDim
    /\ \A n \in Idx : entry.ksps[n].op = n

\* C11: a call that is past its entry has solved the state problem exactly
\* once, as the first event of the call; at the cache test nothing else has
\* happened, whether the cache is fresh or stale.
C11_StateProviderFirst ==
    (pc \in {"check_cache", "returned"} \/ InStrategy) =>
        /\ Len(log) >= 1
        /\ log[1] = Ev("state_solve", Unset)
        /\ Count("state_solve") = 1
        /\ pc = "check_cache" => Len(log) = 1

\* a call that hit the cache went through the state solve and nothing else
C11_Witness ==
    /\ pc = "returned" /\ entry.flag
    /\ log = <<Ev("state_solve", Unset)>>

\* C12: after the residual of sweep index maxiter > 0, a residual that is 0
\* or meets the tolerance test leaves the call Converged at its tail, and only
\* a residual that meets no test leaves it Failed.
C12_ConvergedBeforeLimit ==
    /\ (state_is_picard /\ maxiter > 0 /\ i = maxiter
          /\ pc \in {"finish", "aborted"}) =>
         IF res = 0 \/ AbsMet \/ RelMet
         THEN pc = "finish" /\ picard_state = "Converged"
         ELSE pc = "aborted" /\ picard_state = "Failed"
    /\ picard_state = "Failed" =>
         res > 0 /\ res_0 > 0 /\ ~AbsMet /\ ~RelMet

\* the residual of the last allowed sweep met a tolerance
C12_Witness ==
    /\ PostTest /\ pc = "finish" /\ maxiter > 0 /\ i = maxiter
    /\ AbsMet \/ RelMet

\* C13 (as claimed): at a sweep index > 0 a residual equal to atol, or a
\* ratio equal to rtol, is Converged.
C13_Inclusive ==
    (PostTest /\ i > 0 /\ (res = atol \/ res * rtol[2] = rtol[1] * res_0)) =>
        pc = "finish" /\ picard_state = "Converged"

\* C13 (amended): the comparisons are strict.  At a sweep index > 0 a
\* residual that is not below atol and whose ratio is not below rtol, equality
\* included, is not Converged: the call sweeps again or fails; and a non-zero
\* residual at the tail is strictly below one of the tolerances.
C13_Strict ==
    /\ (PostTest /\ i > 0 /\ res >= atol /\ res * rtol[2] >= rtol[1] * res_0) =>
         /\ pc \in {"picard_sweep", "aborted"}
         /\ picard_state # "Converged"
    /\ (PostTest /\ pc = "finish") => (AbsMet \/ RelMet)

\* a residual equal to atol at sweep 1 is followed by another sweep
C13_Witness ==
    /\ PostTest /\ i > 0 /\ pc = "picard_sweep"
    /\ res = atol

\* C14: every call that has been entered ends, by returning or by the fatal
\* failure; a Picard call solves at most maxiter * N times (never, for a
\* negative maxiter) and assembles at most (maxiter + 1) * N residual forms;
\* and a call that is Converged at sweep index i has done exactly i sweeps.
C14_Termination ==
    /\ [](state_is_picard =>
            /\ Count("fenics_solve") <=
                   (IF maxiter >= 0 THEN maxiter * StateDim ELSE 0)
            /\ Count("assemble") <=
                   (IF maxiter >= 0 THEN (maxiter + 1) * StateDim ELSE 0)
            /\ (pc = "finish" /\ picard_state = "Converged") =>
                   /\ Count("fenics_solve") = i * StateDim
                   /\ Count("assemble") = (i + 1) * StateDim)
    /\ (pc = "check_cache") ~> (pc \in {"returned", "aborted"})

\* a Picard call returned after using every allowed sweep
C14_Witness ==
    /\ pc = "returned" /\ picard_state = "Converged"
    /\ maxiter = MaxIter /\ NumSweeps = MaxIter

\* C15: a call runs the strategy its configuration selects and no other.
\* With state_is_picard false no residual form is assembled, fenics.solve is
\* never called, the call is never in the Picard loop, aborted or Failed, and
\* a stale call that returned has solved each subsystem exactly once through
\* its handle; with state_is_picard true no system is assembled, no operator
\* set and no handle solved on, and the call is never in the direct loop.
C15_Dispatch ==
    /\ ~state_is_picard =>
         /\ Count("assemble") = 0 /\ Count("fenics_solve") = 0
         /\ pc \notin {"picard_res", "picard_test", "picard_sweep", "aborted"}
         /\ picard_state = "None"
         /\ (pc \in {"finish", "returned"} /\ ~entry.flag) =>
              \A n \in Idx :
                  Cardinality({k \in DOMAIN log : log[k] = Ev("ksp_solve", n)}) = 1
    /\ state_is_picard =>
         /\ Count("assemble_system") = 0 /\ Count("setOperators") = 0
         /\ Count("ksp_solve") = 0
         /\ pc # "direct"
         /\ InStrategy => picard_state # "None"

\* a stale direct call returned
C15_Witness ==
    /\ ~state_is_picard /\ pc = "returned" /\ ~entry.flag
    /\ Count("ksp_solve") = StateDim

\* C16: a call starts without a reference residual and has none until the
\* tests of its sweep 0; the reference changes only there, from unassigned to
\* the root of that sweep's residual, or when the call's locals go away at
\* its entry and return; no step of a sweep index > 0 changes it.
C16_Reference ==
    /\ []((pc \in {"check_cache", "direct"}
            \/ (pc \in {"picard_res", "picard_test"} /\ i = 0)) => res_0 = Unset)
    /\ [][res_0' # res_0 =>
            \/ /\ pc = "picard_test" /\ i = 0
               /\ res_0 = Unset
               /\ res_0' = Sqrt(res) /\ res_0' = res'
            \/ /\ pc' \in {"check_cache", "returned"}
               /\ res_0' = Unset]_vars

\* a second stale call is past sweep 0 with a residual other than its reference
C16_Witness ==
    /\ PostTest /\ i > 0 /\ res # res_0
    /\ entry.count = 1

IsPicardEvent(e) == e[1] \in {"assemble", "fenics_solve"}

\* the residual assemblies and sweep solves of the current call, in order
PicardEvents == SelectSeq(log, IsPicardEvent)

\* C17: the residual assemblies and sweep solves of a call alternate in whole
\* blocks: iteration b assembles the forms j = 0..N-1 in that order, then
\* sweeps N-1..0, so every solve of an iteration comes after the N assemblies
\* of the same iteration; and the tests of sweep index i are made after
\* exactly i sweeps and i + 1 residual evaluations, the last of them after the
\* last solve.
C17_ResidualBeforeSweep ==
    /\ \A k \in DOMAIN PicardEvents :
         LET p == (k - 1) % (2 * StateDim) IN
         PicardEvents[k] = IF p < StateDim
                           THEN Ev("assemble", p)
                           ELSE Ev("fenics_solve", 2 * StateDim - 1 - p)
    /\ pc = "picard_test" =>
         /\ Count("fenics_solve") = i * StateDim
         /\ Count("assemble") = (i + 1) * StateDim
         /\ PicardEvents[Len(PicardEvents)] = Ev("assemble", StateDim - 1)
    /\ pc = "picard_sweep" =>
         /\ Count("assemble") = (i + 1) * StateDim
         /\ Count("fenics_solve") = i * StateDim + j

\* the tests of sweep index 2 are about to be made
C17_Witness ==
    /\ pc = "picard_test" /\ i = 2
    /\ Count("assemble") = 3 * StateDim /\ Count("fenics_solve") = 2 * StateDim

\* C18: a stale call that returned with the flag true has made a whole direct
\* pass or, in Picard mode, has reached Converged after evaluating at least
\* one residual, for every value of maxiter.
C18_FreshImpliesSolved ==
    (has_solution /\ pc = "returned" /\ ~entry.flag) =>
        IF state_is_picard
        THEN picard_state = "Converged" /\ Count("assemble") >= StateDim
        ELSE Len(Solves) = StateDim

\* C19: the ratio res / res_0 is never evaluated with res_0 unassigned or
\* zero: no call ends in that error, and in every state after the tests on a
\* non-zero residual (sweeping, failed, or at the tail) the reference is
\* assigned and strictly positive.
C19_NonZeroReference ==
    /\ pc # "crashed"
    /\ (state_is_picard /\ pc \in {"picard_sweep", "aborted"}) =>
         res_0 # Unset /\ res_0 > 0
    /\ (state_is_picard /\ pc = "finish" /\ res > 0) =>
         res_0 # Unset /\ res_0 > 0
    /\ (\E k \in DOMAIN log : log[k][1] = "print" /\ log[k][2] # Unset) =>
         (InStrategy => res_0 > 0)

\* a verbose call has reported the ratio of sweep 1
C19_Witness ==
    /\ picard_verbose /\ PostTest /\ i > 0
    /\ Ev("print", 1) \in {log[k] : k \in DOMAIN log}

====
